---- MODULE Spec2Model ----
(***************************************************************************)
(* cert-issuer: the provider-fallback connectors (cert_issuer/connectors.py)*)
(* and the secret-manager lifecycle (cert_issuer/signer.py).                *)
(*                                                                          *)
(* Spec       : one call of a service-provider connector operation          *)
(*              (broadcast_tx, get_balance, get_address_nonce, ...) against *)
(*              a provider registry whose providers answer                  *)
(*              nondeterministically.                                       *)
(* SpecLive   : Spec, with a broadcast in progress going on to its end.     *)
(* SpecSecret : a single owner driving a FileSecretManager (directly and    *)
(*              through FinalizableSigner scopes) while network             *)
(*              connectivity and the secret's source change on their own.   *)
(* SpecVerify : one call of verify_signature on a signed certificate file.  *)
(* SpecConcurrent : two FinalizableSigner scopes over one secret manager,   *)
(*              their steps interleaved.                                    *)
(***************************************************************************)
EXTENDS Integers, Sequences, FiniteSets, TLC

\* ------------------------------------------------------------------ bounds

\* Longest remote provider list configured for a chain.
MaxProviders == 2

\* Longest list of unspent outputs a provider returns.
MaxSpendables == 2

\* Most inputs of a transaction handed to a signer.
MaxInputs == 2

\* ------------------------------------------------------- program constants

BROADCAST_RETRY_INTERVAL == 30

MAX_BROADCAST_ATTEMPTS == 3

\* ------------------------------------------------------------------ values

\* Python's None where a string is expected (tx ids, exception types, wif).
None == "None"

\* Transaction ids a provider can report.
TxIds == {"T1", "T2"}

\* Balances (in wei) an account-balance query can report.
Balances == {0, 7}

\* Nonces a transaction-count query can report.
Nonces == {0, 4}

\* Coin values of unspent outputs, as integers a provider's answer can hold:
\* nothing checks their sign or size.
CoinValues == {-2, -1, 1, 2}

Chains == {"bitcoin_mainnet", "bitcoin_testnet", "ethereum_mainnet", "ethereum_ropsten"}

\* The provider classes of the registry, by the methods they define.
\* The three bitcoin broadcasters of this repository have the same shape
\* (broadcast_tx(tx) only); BlockrIOBroadcaster stands for them.
\* ChainSoProvider and BlockcypherProvider are the pycoin providers: the
\* first answers spendables_for_address only, the second also broadcast_tx.
RemoteKinds == {"EtherscanBroadcaster", "BlockrIOBroadcaster",
                "ChainSoProvider", "BlockcypherProvider"}

ProviderKinds == RemoteKinds \cup {"BitcoindConnector"}

\* The methods a provider class defines.
Capabilities(kind) ==
    CASE kind = "EtherscanBroadcaster" ->
            {"broadcast_tx", "get_balance", "get_address_nonce"}
      [] kind = "BlockrIOBroadcaster" -> {"broadcast_tx"}
      [] kind = "ChainSoProvider" -> {"spendables_for_address"}
      [] kind = "BlockcypherProvider" -> {"spendables_for_address", "broadcast_tx"}
      [] kind = "BitcoindConnector" -> {"broadcast_tx", "spendables_for_address"}

\* Mutant: every class's methods take an api_token, the local node's too.
TakesApiTokenAlways(kind) == TRUE

\* Whether the class's methods take the extra api_token argument.
TakesApiToken(kind) == kind = "EtherscanBroadcaster"

\* helpers.to_pycoin_chain as used for the local node's netcode.
to_pycoin_chain(c) ==
    CASE c = "bitcoin_mainnet" -> "BTC"
      [] c = "bitcoin_testnet" -> "XTN"
      [] OTHER -> "XTN"

RECURSIVE SeqsUpTo(_, _)
SeqsUpTo(S, n) ==
    IF n = 0 THEN {<<>>}
    ELSE LET shorter == SeqsUpTo(S, n - 1)
         IN shorter \cup {Append(s, x) : s \in {t \in shorter : Len(t) = n - 1}, x \in S}

Provider(kind, netcode) == [kind |-> kind, netcode |-> netcode]

\* The provider lists a registry can hold for a chain.
ProviderLists == SeqsUpTo({Provider(k, None) : k \in RemoteKinds}, MaxProviders)

SpendableLists == SeqsUpTo(CoinValues, MaxSpendables)

\* Exceptions carry their type and the call that raised them.
Exc(type, attempt, provider) == [type |-> type, attempt |-> attempt, provider |-> provider]

NoException == Exc(None, 0, 0)

\* What a call leaves: nothing yet, a returned value, or a raised exception.
\* vtype says which of txid, num and list holds the returned value
\* ("none": the call returned None).
NoOutcome == [kind |-> "none", vtype |-> "none", txid |-> None, num |-> 0, list |-> <<>>,
              error |-> None, wraps |-> NoException]

ReturnedTxId(t) == [kind |-> "return", vtype |-> IF t = None THEN "none" ELSE "txid",
                    txid |-> t, num |-> 0, list |-> <<>>,
                    error |-> None, wraps |-> NoException]

ReturnedInt(n) == [kind |-> "return", vtype |-> "int", txid |-> None, num |-> n, list |-> <<>>,
                   error |-> None, wraps |-> NoException]

ReturnedList(l) == [kind |-> "return", vtype |-> "list", txid |-> None, num |-> 0, list |-> l,
                    error |-> None, wraps |-> NoException]

ReturnedNone == ReturnedTxId(None)

Raised(error, wraps) == [kind |-> "raise", vtype |-> "none", txid |-> None, num |-> 0,
                         list |-> <<>>, error |-> error, wraps |-> wraps]

\* ------------------------------------------------------------------- state

VARIABLES
    connectors,      \* the registry: chain -> ordered provider list
    chain,           \* the connector's chain
    bitcoind,        \* the connector's bitcoind / local_node flag
    op,              \* the operation called
    pc,              \* where the call is
    methods,         \* the provider list being iterated
    idx,             \* position of the next provider in methods
    attempt_number,  \* broadcast_tx_with_chain's loop variable
    final_tx_id,     \* broadcast_tx_with_chain's local
    last_exception,  \* broadcast_tx_with_chain's local
    spendables,      \* result of spendables_for_address
    outcome,         \* what the call returned or raised
    calls,           \* provider calls of the current attempt, in order
    events,          \* attempts started and sleeps taken, in order
    providers,       \* what get_providers_for_chain last returned
    seen,            \* the kinds of answer the provider calls have given
    ncalls,          \* provider calls made by the operation so far
    wif,             \* SecretManager.wif
    safe_mode,       \* FileSecretManager.safe_mode
    signer,          \* the signer's chain family
    net,             \* environment: network connectivity
    usb,             \* environment: the secret's source is present
    spc,             \* where the owner is in start / stop / sign
    scope,           \* where the owner is in a FinalizableSigner scope
    sign_outcome,    \* the last sign call: its arguments and what it returned or raised
    started,         \* a start() has returned and no stop() was called since
    read_env,        \* network and source at the last read of the secret
    stops,           \* stop() calls made by the current scope's __exit__
    poll,            \* whose polling loop ran last (start's or stop's) and what
                     \* its latest iteration observed
    verify,          \* a verify_signature call: its arguments and what it did
    cpc,             \* concurrent sessions: where each caller is
    cleared          \* concurrent sessions: another caller's stop() ran since
                     \* this caller's start() returned

connVars == <<connectors, chain, bitcoind, op, pc, methods, idx, attempt_number,
              final_tx_id, last_exception, spendables, outcome, calls, events,
              providers, seen, ncalls>>

secretVars == <<wif, safe_mode, signer, net, usb, spc, scope,
                sign_outcome, started, read_env, stops, poll>>

auxVars == <<verify, cpc, cleared>>

vars == <<connVars, secretVars, auxVars>>

\* ------------------------------------------------------- provider registry

\* Mutant: the local node is added to the remote list instead of replacing it.
ProvidersForAddsLocalNode(reg, c, b) ==
    IF b THEN reg[c] \o <<Provider("BitcoindConnector", to_pycoin_chain(c))>>
    ELSE reg[c]

\* get_providers_for_chain(chain, bitcoind) against registry reg.
ProvidersFor(reg, c, b) ==
    IF b THEN <<Provider("BitcoindConnector", to_pycoin_chain(c))>>
    ELSE reg[c]

get_providers_for_chain(c, b) == ProvidersFor(connectors, c, b)

\* pycoin's service_provider_methods: the providers that define the method,
\* in list order.
service_provider_methods(method, provs) ==
    SelectSeq(provs, LAMBDA p : method \in Capabilities(p.kind))

\* ---------------------------------------------------------- provider calls

BroadcastReturns == {ReturnedTxId(t) : t \in TxIds \cup {None}}

BalanceReturns == {ReturnedInt(b) : b \in Balances}

NonceReturns == {ReturnedInt(n) : n \in Nonces}

SpendablesReturns == {ReturnedList(l) : l \in SpendableLists}

\* What calling p.method can do: a missing attribute or a call with the wrong
\* number of arguments raises; otherwise the remote service answers with one
\* of `returns` or the call raises (non-200 status, network error, bad JSON).
ProviderCall(p, method, withToken, returns) ==
    IF method \notin Capabilities(p.kind)
    THEN {Raised("AttributeError", NoException)}
    ELSE IF TakesApiToken(p.kind) # withToken
    THEN {Raised("TypeError", NoException)}
    ELSE returns \cup {Raised("ProviderError", NoException)}

\* The kind of answer a provider call gave: it raised, it returned a null
\* (None), or it returned a value.
AnswerKind(r) ==
    IF r.kind = "raise" THEN "raise"
    ELSE IF r.vtype = "none" THEN "null"
    ELSE "value"

\* ------------------------------------------------------------ pure helpers

\* Python's hash() of an int, for |v| < 2^61 - 1: the int itself, but for
\* -1, whose hash is -2. (From 2^61 - 1 on the hash is the value modulo
\* 2^61 - 1.)
PyHash(v) == IF v = -1 THEN -2 ELSE v

RECURSIVE InsertByHash(_, _)
\* x inserted into the key-sorted s after every element whose key is <= its own.
InsertByHash(s, x) ==
    IF s = <<>> THEN <<x>>
    ELSE IF PyHash(x) < PyHash(Head(s)) THEN <<x>> \o s
    ELSE <<Head(s)>> \o InsertByHash(Tail(s), x)

RECURSIVE SortedByHash(_)
\* sorted(spendables, key=lambda x: hash(x.coin_value)): stable, ascending by key.
SortedByHash(s) ==
    IF s = <<>> THEN <<>>
    ELSE InsertByHash(SortedByHash(SubSeq(s, 1, Len(s) - 1)), s[Len(s)])

RECURSIVE Sum(_)
Sum(s) == IF s = <<>> THEN 0 ELSE Head(s) + Sum(Tail(s))

\* get_unspent_outputs, given what spendables_for_address returned.
UnspentOutputs(sp) ==
    IF sp # <<>> THEN ReturnedList(SortedByHash(sp)) ELSE ReturnedNone

\* Mutant: an address with no unspent outputs is reported as an error.
BitcoinBalanceRaisesOnEmpty(sp) ==
    IF sp = <<>> THEN Raised("ConnectorError", NoException)
    ELSE ReturnedInt(Sum(sp))

\* get_balance (bitcoin), given what spendables_for_address returned.
BitcoinBalance(sp) ==
    LET unspent == UnspentOutputs(sp)
    IN IF unspent.vtype = "none" \/ unspent.list = <<>>
       THEN ReturnedInt(0)
       ELSE ReturnedInt(Sum(unspent.list))

\* ------------------------------------------------------------ the registry

\* The registry built at import time, by provider shape. The pycoin providers
\* of the config strings answer spendables_for_address; blockchain.info and
\* blockcypher.com also define broadcast_tx (BlockcypherProvider stands for
\* both), the insight and chain.so providers do not (ChainSoProvider).
SourceConnectors ==
    [c \in Chains |->
        CASE c = "bitcoin_mainnet" ->
                <<Provider("BlockcypherProvider", None), Provider("ChainSoProvider", None),
                  Provider("BlockcypherProvider", None), Provider("ChainSoProvider", None),
                  Provider("BlockrIOBroadcaster", None), Provider("BlockrIOBroadcaster", None),
                  Provider("ChainSoProvider", None), Provider("ChainSoProvider", None)>>
          [] c = "bitcoin_testnet" ->
                <<Provider("ChainSoProvider", None), Provider("ChainSoProvider", None),
                  Provider("BlockrIOBroadcaster", None), Provider("BlockrIOBroadcaster", None)>>
          [] c = "ethereum_mainnet" -> <<Provider("EtherscanBroadcaster", None)>>
          [] c = "ethereum_ropsten" -> <<Provider("EtherscanBroadcaster", None)>>]

BtcOps == {"btc_broadcast_tx", "btc_spendables_for_address", "btc_get_unspent_outputs",
           "btc_get_balance"}

EthOps == {"eth_get_balance", "eth_get_address_nonce", "eth_broadcast_tx"}

\* ------------------------------------------------- bitcoin-like broadcast

\* Mutant: only the first exception is remembered.
BroadcastStepKeepsFirstException(final, last, r, a, i) ==
    IF r.kind = "raise"
    THEN [final |-> final, last |-> IF last = NoException THEN Exc(r.error, a, i) ELSE last]
    ELSE IF r.txid # None
    THEN IF final # None /\ final # r.txid
         THEN [final |-> final, last |-> Exc("ConflictingTxIds", a, i)]
         ELSE [final |-> r.txid, last |-> last]
    ELSE [final |-> final, last |-> last]

\* Mutant: a provider that raises discards the id an earlier provider returned.
BroadcastStepFailureDiscardsId(final, last, r, a, i) ==
    IF r.kind = "raise"
    THEN [final |-> None, last |-> Exc(r.error, a, i)]
    ELSE IF r.txid # None
    THEN IF final # None /\ final # r.txid
         THEN [final |-> final, last |-> Exc("ConflictingTxIds", a, i)]
         ELSE [final |-> r.txid, last |-> last]
    ELSE [final |-> final, last |-> last]

\* One pass of the provider loop's body: the try block and its except clause.
\* r is what method_provider(tx) did; the result is the new
\* final_tx_id and last_exception.
BroadcastStep(final, last, r, a, i) ==
    IF r.kind = "raise"
    THEN [final |-> final, last |-> Exc(r.error, a, i)]
    ELSE IF r.txid # None
    THEN IF final # None /\ final # r.txid
         THEN \* raise Exception('Got conflicting tx_ids.'), caught four lines below
              [final |-> final, last |-> Exc("ConflictingTxIds", a, i)]
         ELSE [final |-> r.txid, last |-> last]
    ELSE [final |-> final, last |-> last]

\* Mutant: the provider loop ends at the first provider that returns an id.
NextProviderStopsAtSuccess(i, r, n) ==
    IF r.kind = "return" /\ r.txid # None THEN n + 1 ELSE i + 1

\* The provider loop's step: after provider i of n did r, the for statement
\* moves to the next provider (the body has no break and no return).
NextProvider(i, r, n) == i + 1

\* Mutant: an attempt without an id ends the call instead of sleeping.
AfterAttemptNeverSleeps(final) == "return"

\* The statements after the provider loop: return, or go to sleep.
AfterAttempt(final) == IF final # None THEN "return" ELSE "sleep"

\* The duration of the sleep between attempts.
RetrySleep == BROADCAST_RETRY_INTERVAL

\* Mutant: the last provider exception is raised again as it is.
BroadcastFailureReraises(last) == Raised(last.type, NoException)

\* What broadcast_tx_with_chain raises after its last attempt.
BroadcastFailure(last) == Raised("BroadcastError", last)

Attempt(n) == [ev |-> "attempt", n |-> n]

Sleep(d) == [ev |-> "sleep", n |-> d]

\* ----------------------------------------------------------------- actions

ConnInit ==
    /\ chain \in Chains
    /\ bitcoind \in BOOLEAN
    /\ connectors \in {SourceConnectors}
          \cup {[SourceConnectors EXCEPT ![chain] = l] : l \in ProviderLists}
    /\ op = None
    /\ pc = "idle"
    /\ methods = <<>>
    /\ idx = 1
    /\ attempt_number = 0
    /\ final_tx_id = None
    /\ last_exception = NoException
    /\ spendables = <<>>
    /\ outcome = NoOutcome
    /\ calls = <<>>
    /\ events = <<>>
    /\ providers = <<>>
    /\ seen = {}
    /\ ncalls = 0

\* BitcoinServiceProviderConnector.broadcast_tx is called.
CallBroadcast ==
    /\ pc = "idle"
    /\ op' = "btc_broadcast_tx"
    /\ last_exception' = NoException
    /\ final_tx_id' = None
    /\ attempt_number' = 0
    /\ pc' = "attempt"
    /\ UNCHANGED <<connectors, chain, bitcoind, methods, idx, spendables, outcome,
                   calls, events, providers, seen, ncalls, secretVars, auxVars>>

\* The head of the attempt loop: the next attempt starts, or the loop is over
\* and BroadcastError is raised. (attempt_number counts the iterations begun;
\* it reaches MAX_BROADCAST_ATTEMPTS when range() is exhausted.)
StartAttempt ==
    /\ pc = "attempt"
    /\ IF attempt_number < MAX_BROADCAST_ATTEMPTS
       THEN /\ providers' = get_providers_for_chain(chain, bitcoind)
            /\ methods' = service_provider_methods("broadcast_tx", providers')
            /\ idx' = 1
            /\ calls' = <<>>
            /\ events' = Append(events, Attempt(attempt_number))
            /\ pc' = "provider"
            /\ UNCHANGED outcome
       ELSE /\ outcome' = BroadcastFailure(last_exception)
            /\ pc' = "done"
            /\ UNCHANGED <<methods, idx, calls, events, providers>>
    /\ UNCHANGED <<connectors, chain, bitcoind, op, attempt_number, final_tx_id,
                   last_exception, spendables, seen, ncalls, secretVars, auxVars>>

\* One provider of the attempt is called.
BroadcastProvider ==
    /\ pc = "provider"
    /\ op = "btc_broadcast_tx"
    /\ idx <= Len(methods)
    /\ \E r \in ProviderCall(methods[idx], "broadcast_tx", FALSE, BroadcastReturns) :
          LET next == BroadcastStep(final_tx_id, last_exception, r, attempt_number, idx)
          IN /\ final_tx_id' = next.final
             /\ last_exception' = next.last
             /\ calls' = Append(calls, [provider |-> idx, res |-> r])
             /\ seen' = seen \cup {AnswerKind(r)}
             /\ idx' = NextProvider(idx, r, Len(methods))
    /\ ncalls' = ncalls + 1
    /\ UNCHANGED <<connectors, chain, bitcoind, op, pc, methods, attempt_number,
                   spendables, outcome, events, providers, secretVars, auxVars>>

\* Every provider of the attempt was called.
EndAttempt ==
    /\ pc = "provider"
    /\ op = "btc_broadcast_tx"
    /\ idx > Len(methods)
    /\ IF AfterAttempt(final_tx_id) = "return"
       THEN /\ outcome' = ReturnedTxId(final_tx_id)
            /\ pc' = "done"
       ELSE /\ pc' = "sleep"
            /\ UNCHANGED outcome
    /\ UNCHANGED <<connectors, chain, bitcoind, op, methods, idx, attempt_number,
                   final_tx_id, last_exception, spendables, calls, events, providers,
                   seen, ncalls, secretVars, auxVars>>

\* time.sleep(BROADCAST_RETRY_INTERVAL), then the next iteration.
BroadcastSleep ==
    /\ pc = "sleep"
    /\ events' = Append(events, Sleep(RetrySleep))
    /\ attempt_number' = attempt_number + 1
    /\ pc' = "attempt"
    /\ UNCHANGED <<connectors, chain, bitcoind, op, methods, idx, final_tx_id,
                   last_exception, spendables, outcome, calls, providers, seen,
                   ncalls, secretVars, auxVars>>

\* ------------------------------------------------- ethereum-like operations

\* The provider method an ethereum operation calls, with self.api_key.
EthMethod(o) ==
    CASE o = "eth_get_balance" -> "get_balance"
      [] o = "eth_get_address_nonce" -> "get_address_nonce"
      [] o = "eth_broadcast_tx" -> "broadcast_tx"

EthReturns(o) ==
    CASE o = "eth_get_balance" -> BalanceReturns
      [] o = "eth_get_address_nonce" -> NonceReturns
      [] o = "eth_broadcast_tx" -> BroadcastReturns

\* get_balance passes over a BitcoindConnector without calling it.
EthSkips(o, p) == o = "eth_get_balance" /\ p.kind = "BitcoindConnector"

\* What the operation returns once its provider loop ran out.
EthSentinel(o) ==
    IF o = "eth_broadcast_tx" THEN ReturnedTxId("0xfail") ELSE ReturnedInt(0)

\* Mutant: the loop goes on to the next provider after a successful call.
LoopReturnsNever(r) == FALSE

\* The try block of a first-success loop: a call that did not raise is
\* followed by `return`, whatever it returned.
LoopReturns(r) == r.kind = "return"

\* EthereumServiceProviderConnector.get_balance / get_address_nonce /
\* broadcast_tx is called.
CallEth ==
    /\ pc = "idle"
    /\ op' \in EthOps
    /\ providers' = get_providers_for_chain(chain, bitcoind)
    /\ methods' = providers'
    /\ idx' = 1
    /\ calls' = <<>>
    /\ pc' = "provider"
    /\ UNCHANGED <<connectors, chain, bitcoind, attempt_number, final_tx_id,
                   last_exception, spendables, outcome, events, seen, ncalls, secretVars, auxVars>>

\* The loop body for the next provider: return what it returned, or log the
\* exception and go on.
EthProvider ==
    /\ pc = "provider"
    /\ op \in EthOps
    /\ idx <= Len(methods)
    /\ IF EthSkips(op, methods[idx])
       THEN /\ idx' = idx + 1
            /\ UNCHANGED <<pc, outcome, calls, seen, ncalls>>
       ELSE \E r \in ProviderCall(methods[idx], EthMethod(op), TRUE, EthReturns(op)) :
               /\ calls' = Append(calls, [provider |-> idx, res |-> r])
               /\ ncalls' = ncalls + 1
               /\ seen' = seen \cup {AnswerKind(r)}
               /\ IF LoopReturns(r)
                  THEN /\ outcome' = r
                       /\ pc' = "done"
                       /\ UNCHANGED idx
                  ELSE /\ idx' = idx + 1
                       /\ UNCHANGED <<pc, outcome>>
    /\ UNCHANGED <<connectors, chain, bitcoind, op, methods, attempt_number,
                   final_tx_id, last_exception, spendables, events, providers,
                   secretVars, auxVars>>

\* The provider loop ran out.
EthExhausted ==
    /\ pc = "provider"
    /\ op \in EthOps
    /\ idx > Len(methods)
    /\ outcome' = EthSentinel(op)
    /\ pc' = "done"
    /\ UNCHANGED <<connectors, chain, bitcoind, op, methods, idx, attempt_number,
                   final_tx_id, last_exception, spendables, calls, events, providers,
                   seen, ncalls, secretVars, auxVars>>

\* --------------------------------------------------- bitcoin-like queries

BtcReadOps == BtcOps \ {"btc_broadcast_tx"}

\* What the operation returns, given what spendables_for_address returned.
BtcReadResult(o, sp) ==
    CASE o = "btc_spendables_for_address" -> ReturnedList(sp)
      [] o = "btc_get_unspent_outputs" -> UnspentOutputs(sp)
      [] o = "btc_get_balance" -> BitcoinBalance(sp)

\* spendables_for_address / get_unspent_outputs / get_balance is called.
CallBtcRead ==
    /\ pc = "idle"
    /\ op' \in BtcReadOps
    /\ providers' = get_providers_for_chain(chain, bitcoind)
    /\ methods' = service_provider_methods("spendables_for_address", providers')
    /\ idx' = 1
    /\ calls' = <<>>
    /\ pc' = "provider"
    /\ UNCHANGED <<connectors, chain, bitcoind, attempt_number, final_tx_id,
                   last_exception, spendables, outcome, events, seen, ncalls, secretVars, auxVars>>

\* spendables_for_address's loop body for the next provider; on success the
\* callers (get_unspent_outputs, get_balance) finish on its result.
SpendablesProvider ==
    /\ pc = "provider"
    /\ op \in BtcReadOps
    /\ idx <= Len(methods)
    /\ \E r \in ProviderCall(methods[idx], "spendables_for_address", FALSE, SpendablesReturns) :
          /\ calls' = Append(calls, [provider |-> idx, res |-> r])
          /\ ncalls' = ncalls + 1
          /\ seen' = seen \cup {AnswerKind(r)}
          /\ IF LoopReturns(r)
             THEN /\ spendables' = r.list
                  /\ outcome' = BtcReadResult(op, r.list)
                  /\ pc' = "done"
                  /\ UNCHANGED idx
             ELSE /\ idx' = idx + 1
                  /\ UNCHANGED <<pc, outcome, spendables>>
    /\ UNCHANGED <<connectors, chain, bitcoind, op, methods, attempt_number,
                   final_tx_id, last_exception, events, providers, secretVars, auxVars>>

\* spendables_for_address's loop ran out: it returns [].
SpendablesExhausted ==
    /\ pc = "provider"
    /\ op \in BtcReadOps
    /\ idx > Len(methods)
    /\ spendables' = <<>>
    /\ outcome' = BtcReadResult(op, <<>>)
    /\ pc' = "done"
    /\ UNCHANGED <<connectors, chain, bitcoind, op, methods, idx, attempt_number,
                   final_tx_id, last_exception, calls, events, providers, seen,
                   ncalls, secretVars, auxVars>>

\* ------------------------------------------------------------- the signers

\* The chain families a secret manager is set up for by initialize_signer;
\* for the mockchain the signer is None.
SignerFamilies == {"bitcoin", "ethereum", "mockchain"}

\* Mutant: import_key hands back nothing.
KeyOnSourceIsNull == None

\* The key import_key reads from the secret's source.
KeyOnSource == "KEY"

\* The transactions handed to a signer: a pycoin Tx whose inputs the key
\* can ("signable") or cannot ("unsignable") unlock, an ethereum
\* transactions.Transaction, or some other object.
BitcoinTxs == {[shape |-> "Tx", inputs |-> i] :
                  i \in SeqsUpTo({"signable", "unsignable"}, MaxInputs)}

EthereumTxs == {[shape |-> "Transaction", inputs |-> <<>>],
                [shape |-> "other", inputs |-> <<>>]}

TxsFor(family) == IF family = "ethereum" THEN EthereumTxs ELSE BitcoinTxs

NoTx == [shape |-> None, inputs |-> <<>>]

SignReturned(v) == [kind |-> "return", value |-> v, error |-> None]

SignRaised(e) == [kind |-> "raise", value |-> None, error |-> e]

\* BitcoinSigner.sign_message: CBitcoinSecret(wif) raises without a key
\* (or on a malformed one: lib_ok is FALSE).
BitcoinSignMessage(w, lib_ok) ==
    IF w = None THEN SignRaised("TypeError")
    ELSE IF ~lib_ok THEN SignRaised("LibraryError")
    ELSE SignReturned("signature")

\* transaction_to_sign.sign(lookup): the unlocking script of each input
\* after signing; Tx.sign leaves the script of an input it cannot unlock
\* empty and goes on.
ScriptsAfterSign(tx) ==
    [i \in DOMAIN tx.inputs |-> IF tx.inputs[i] = "signable" THEN "script" ELSE ""]

\* Mutant: only the first input's script is checked.
BitcoinSignTransactionChecksFirstInput(w, tx, lib_ok) ==
    IF w = None THEN SignRaised("TypeError")
    ELSE IF ~lib_ok THEN SignRaised("LibraryError")
    ELSE IF tx.inputs # <<>> /\ ScriptsAfterSign(tx)[1] = ""
    THEN SignRaised("UnableToSignTxError")
    ELSE SignReturned("signed_transaction")

\* BitcoinSigner.sign_transaction: deriving the key raises without a wif (or
\* on a malformed one: lib_ok is FALSE); the loop after Tx.sign raises on the
\* first empty script.
BitcoinSignTransaction(w, tx, lib_ok) ==
    IF w = None THEN SignRaised("TypeError")
    ELSE IF ~lib_ok THEN SignRaised("LibraryError")
    ELSE IF \E i \in DOMAIN tx.inputs : ScriptsAfterSign(tx)[i] = ""
    THEN SignRaised("UnableToSignTxError")
    ELSE SignReturned("signed_transaction")

\* EthereumSigner.sign_message: the body is `pass`.
EthereumSignMessage(w, lib_ok) == SignReturned(None)

\* EthereumSigner.sign_transaction: an exception of Transaction.sign or
\* rlp.encode (no key, a malformed key) is caught and returned as a dict.
EthereumSignTransaction(w, tx, lib_ok) ==
    IF tx.shape = "Transaction"
    THEN IF w = None \/ ~lib_ok
         THEN SignReturned("error_dict")
         ELSE SignReturned("raw_tx_hex")
    ELSE SignRaised("UnableToSignTxError")

\* SecretManager.sign_message / sign_transaction: delegate to self.signer
\* with self.wif.
SignResult(family, call, w, tx, lib_ok) ==
    CASE family = "mockchain" -> SignRaised("AttributeError")
      [] family = "bitcoin" /\ call = "sign_message" -> BitcoinSignMessage(w, lib_ok)
      [] family = "bitcoin" /\ call = "sign_transaction" -> BitcoinSignTransaction(w, tx, lib_ok)
      [] family = "ethereum" /\ call = "sign_message" -> EthereumSignMessage(w, lib_ok)
      [] family = "ethereum" /\ call = "sign_transaction" -> EthereumSignTransaction(w, tx, lib_ok)

NoSign == [call |-> None, wif |-> None, tx |-> NoTx, lib_ok |-> TRUE,
           res |-> SignReturned(None)]

\* ------------------------------------------------------ the secret manager

\* The secret manager as constructed: SecretManager.__init__ sets wif = None.
SecretConstructed ==
    /\ wif = None
    /\ spc = "idle"
    /\ scope = "out"
    /\ sign_outcome = NoSign
    /\ started = FALSE
    /\ read_env = [read |-> FALSE, net |-> FALSE, usb |-> FALSE]
    /\ stops = 0
    /\ poll = [by |-> None, net |-> "unseen", usb |-> "unseen"]

SecretInit ==
    /\ SecretConstructed
    /\ safe_mode \in BOOLEAN
    /\ signer \in SignerFamilies
    /\ net \in BOOLEAN
    /\ usb \in BOOLEAN

\* internet_on(): whether the request to google.com went through.
internet_on == net

\* os.path.exists(secrets_file_path).
path_exists == usb

\* Where start() goes first: into check_internet_off with safe mode, straight
\* to import_key without.
StartEntry(safe) == IF safe THEN "off_internet" ELSE "import_key"

\* Mutant: stop() leaves the key in memory.
WifAfterStopKeepsKey(w) == w

\* What stop() assigns to self.wif.
WifAfterStop(w) == None

\* Where stop() goes after clearing wif: into check_internet_on with safe
\* mode, back to its caller without.
StopEntry(safe) == IF safe THEN "on_internet" ELSE "idle"

\* Mutant: __exit__ stops the secret manager only when the body did not raise.
ExitCallsStopUnlessRaised(raised) == ~raised

\* Whether FinalizableSigner.__exit__ calls secret_manager.stop(), given
\* whether the body raised.
ExitCallsStop(raised) == TRUE

InScope == scope \in {"entering", "body", "exit_normal", "exit_exception"}

\* A polling loop is entered by start() or stop(): nothing observed yet.
PollBegin(by) == [by |-> by, net |-> "unseen", usb |-> "unseen"]

\* An iteration of the polling loop begins with internet_on().
PollNet(by, on) == [by |-> by, net |-> IF on THEN "on" ELSE "off", usb |-> "unseen"]

\* The iteration goes on to os.path.exists(secrets_file_path).
PollSource(p, exists) == [p EXCEPT !.usb = IF exists THEN "present" ELSE "absent"]

\* The environment: connectivity and the secret's source change on their own.
EnvChange ==
    /\ \/ net' = ~net /\ usb' = usb
       \/ usb' = ~usb /\ net' = net
    /\ UNCHANGED <<wif, safe_mode, signer, spc, scope, sign_outcome, started,
                   read_env, stops, poll, connVars, auxVars>>

\* The owner calls start() outside a scope.
StartCall ==
    /\ spc = "idle"
    /\ ~InScope
    /\ spc' = StartEntry(safe_mode)
    /\ poll' = PollBegin("start")
    /\ scope' = "out"
    /\ stops' = 0
    /\ UNCHANGED <<wif, safe_mode, signer, net, usb, sign_outcome, started,
                   read_env, connVars, auxVars>>

\* check_internet_off: the first operand of the loop's test, internet_on().
OffInternet ==
    /\ spc = "off_internet"
    /\ spc' = IF internet_on = FALSE THEN "off_exists" ELSE "off_sleep"
    /\ poll' = PollNet("start", internet_on)
    /\ UNCHANGED <<wif, safe_mode, signer, net, usb, scope, sign_outcome, started,
                   read_env, stops, connVars, auxVars>>

\* Mutant: check_internet_off does not look for the secret's source.
AfterOffExistsIgnoresSource(exists) == "import_key"

\* check_internet_off with the network seen off: break when the source
\* exists, sleep otherwise.
AfterOffExists(exists) == IF exists THEN "import_key" ELSE "off_sleep"

\* check_internet_off: the second operand, os.path.exists; both hold: break.
OffExists ==
    /\ spc = "off_exists"
    /\ spc' = AfterOffExists(path_exists)
    /\ poll' = PollSource(poll, path_exists)
    /\ UNCHANGED <<wif, safe_mode, signer, net, usb, scope, sign_outcome, started,
                   read_env, stops, connVars, auxVars>>

\* check_internet_off: time.sleep(10), then the next poll.
OffSleep ==
    /\ spc = "off_sleep"
    /\ spc' = "off_internet"
    /\ UNCHANGED <<wif, safe_mode, signer, net, usb, scope, sign_outcome, started,
                   read_env, stops, poll, connVars, auxVars>>

\* self.wif = import_key(self.path_to_secret): open() raises when the source
\* is gone, and start() with it (out of __enter__: the body does not run and
\* __exit__ is not called); otherwise the key is read and start() returns.
ImportKey ==
    /\ spc = "import_key"
    /\ spc' = "idle"
    /\ IF path_exists
       THEN /\ wif' = KeyOnSource
            /\ started' = TRUE
            /\ read_env' = [read |-> TRUE, net |-> net, usb |-> usb]
            /\ scope' = IF scope = "entering" THEN "body" ELSE scope
       ELSE /\ scope' = IF scope = "entering" THEN "enter_failed" ELSE scope
            /\ UNCHANGED <<wif, started, read_env>>
    /\ UNCHANGED <<safe_mode, signer, net, usb, sign_outcome, stops, poll, connVars, auxVars>>

\* The owner calls stop() outside a scope: wif is cleared first.
StopCall ==
    /\ spc = "idle"
    /\ ~InScope
    /\ wif' = WifAfterStop(wif)
    /\ started' = FALSE
    /\ spc' = StopEntry(safe_mode)
    /\ poll' = PollBegin("stop")
    /\ scope' = "out"
    /\ stops' = 0
    /\ UNCHANGED <<safe_mode, signer, net, usb, sign_outcome, read_env, connVars, auxVars>>

\* stop() returns to its caller; a scope's __exit__ returns with it.
AfterStop(sc) ==
    CASE sc = "exit_normal" -> "left_normal"
      [] sc = "exit_exception" -> "left_exception"
      [] OTHER -> sc

\* Mutant: check_internet_on does not wait for the network.
AfterOnInternetIgnoresNetwork(on) == "on_exists"

\* check_internet_on: with the network seen on the source is looked for,
\* otherwise the loop sleeps.
AfterOnInternet(on) == IF on = TRUE THEN "on_exists" ELSE "on_sleep"

\* check_internet_on: the first operand of the loop's test, internet_on().
OnInternet ==
    /\ spc = "on_internet"
    /\ spc' = AfterOnInternet(internet_on)
    /\ poll' = PollNet("stop", internet_on)
    /\ UNCHANGED <<wif, safe_mode, signer, net, usb, scope, sign_outcome, started,
                   read_env, stops, connVars, auxVars>>

\* check_internet_on: the second operand, not os.path.exists; both hold:
\* break, and stop() returns.
OnExists ==
    /\ spc = "on_exists"
    /\ IF ~path_exists
       THEN spc' = "idle" /\ scope' = AfterStop(scope)
       ELSE spc' = "on_sleep" /\ scope' = scope
    /\ poll' = PollSource(poll, path_exists)
    /\ UNCHANGED <<wif, safe_mode, signer, net, usb, sign_outcome, started,
                   read_env, stops, connVars, auxVars>>

\* check_internet_on: time.sleep(10), then the next poll.
OnSleep ==
    /\ spc = "on_sleep"
    /\ spc' = "on_internet"
    /\ UNCHANGED <<wif, safe_mode, signer, net, usb, scope, sign_outcome, started,
                   read_env, stops, poll, connVars, auxVars>>

\* The owner calls sign_message or sign_transaction, in a scope's body or
\* outside any scope. An exception raised in a body leaves the scope:
\* __exit__ runs.
SignCall ==
    /\ spc = "idle"
    /\ scope \notin {"entering", "exit_normal", "exit_exception"}
    /\ \E call \in {"sign_message", "sign_transaction"}, tx \in TxsFor(signer),
          lib_ok \in BOOLEAN :
          LET res == SignResult(signer, call, wif, tx, lib_ok)
          IN /\ sign_outcome' = [call |-> call, wif |-> wif,
                                 tx |-> IF call = "sign_message" THEN NoTx ELSE tx,
                                 lib_ok |-> lib_ok, res |-> res]
             /\ IF scope = "body" /\ res.kind = "raise"
                THEN IF ExitCallsStop(TRUE)
                     THEN /\ wif' = WifAfterStop(wif)
                          /\ started' = FALSE
                          /\ stops' = stops + 1
                          /\ poll' = PollBegin("stop")
                          /\ spc' = StopEntry(safe_mode)
                          /\ scope' = IF StopEntry(safe_mode) = "idle"
                                      THEN "left_exception" ELSE "exit_exception"
                     ELSE /\ scope' = "left_exception"
                          /\ UNCHANGED <<wif, started, stops, spc, poll>>
                ELSE /\ scope' = IF scope = "body" THEN "body" ELSE "out"
                     /\ stops' = IF scope = "body" THEN stops ELSE 0
                     /\ UNCHANGED <<wif, started, spc, poll>>
    /\ UNCHANGED <<safe_mode, signer, net, usb, read_env, connVars, auxVars>>

\* with FinalizableSigner(secret_manager): __enter__ calls start().
EnterScope ==
    /\ spc = "idle"
    /\ ~InScope
    /\ scope' = "entering"
    /\ stops' = 0
    /\ spc' = StartEntry(safe_mode)
    /\ poll' = PollBegin("start")
    /\ UNCHANGED <<wif, safe_mode, signer, net, usb, sign_outcome, started,
                   read_env, connVars, auxVars>>

\* The body ends, normally or by an exception that is not a signer's (a
\* failed broadcast): __exit__ calls stop().
LeaveBody ==
    /\ spc = "idle"
    /\ scope = "body"
    /\ \E raised \in BOOLEAN :
          IF ExitCallsStop(raised)
          THEN /\ wif' = WifAfterStop(wif)
               /\ started' = FALSE
               /\ stops' = stops + 1
               /\ poll' = PollBegin("stop")
               /\ spc' = StopEntry(safe_mode)
               /\ scope' = IF StopEntry(safe_mode) = "idle"
                           THEN (IF raised THEN "left_exception" ELSE "left_normal")
                           ELSE (IF raised THEN "exit_exception" ELSE "exit_normal")
          ELSE /\ scope' = IF raised THEN "left_exception" ELSE "left_normal"
               /\ UNCHANGED <<wif, started, stops, spc, poll>>
    /\ UNCHANGED <<safe_mode, signer, net, usb, sign_outcome, read_env, connVars, auxVars>>

\* The connector variables, unused by the secret manager.
ConnQuiet ==
    /\ chain = "bitcoin_mainnet"
    /\ bitcoind = FALSE
    /\ connectors = SourceConnectors
    /\ op = None
    /\ pc = "idle"
    /\ methods = <<>>
    /\ idx = 1
    /\ attempt_number = 0
    /\ final_tx_id = None
    /\ last_exception = NoException
    /\ spendables = <<>>
    /\ outcome = NoOutcome
    /\ calls = <<>>
    /\ events = <<>>
    /\ providers = <<>>
    /\ seen = {}
    /\ ncalls = 0

\* ------------------------------------------------ signature verification

\* Signing keys and the addresses they own; identifiers of certificates.
Keys == {"K1", "K2", "K3"}
Addresses == {"A1", "A2", "A3"}
KeyOf(address) ==
    CASE address = "A1" -> "K1" [] address = "A2" -> "K2" [] address = "A3" -> "K3"
Uids == {"abc123", "abd123"}

\* A signature is known by the key that made it and the message it was
\* made over; intact is FALSE once a character of it has been altered.
Signatures == [key : Keys, msg : Uids, intact : BOOLEAN]
NoSignature == [key |-> None, msg |-> None, intact |-> FALSE]

\* The signed certificate file as verify_signature reads it: no file, a file
\* that is not JSON, JSON without a 'signature' member, or a signed
\* certificate.
CertFiles ==
    [file : {"signed"}, signature : Signatures]
        \cup [file : {"no_file", "not_json", "no_signature"}, signature : {NoSignature}]

\* verify_message(address, message, signature): the boolean VerifyMessage
\* answers for BitcoinMessage(message).
verify_message(address, message, signature) ==
    /\ signature.intact
    /\ signature.key = KeyOf(address)
    /\ signature.msg = message

\* Mutant: a failed verification is answered with the flag instead of raised.
VerifySignatureReturnsFlag(uid, cert, issuing_address) ==
    IF cert.file = "no_file" THEN Raised("FileNotFoundError", NoException)
    ELSE IF cert.file = "not_json" THEN Raised("ValueError", NoException)
    ELSE IF cert.file = "no_signature" THEN Raised("KeyError", NoException)
    ELSE IF ~verify_message(issuing_address, uid, cert.signature)
    THEN ReturnedInt(0)
    ELSE ReturnedNone

\* verify_signature(uid, signed_cert_file_name, issuing_address).
verify_signature(uid, cert, issuing_address) ==
    IF cert.file = "no_file" THEN Raised("FileNotFoundError", NoException)
    ELSE IF cert.file = "not_json" THEN Raised("ValueError", NoException)
    ELSE IF cert.file = "no_signature" THEN Raised("KeyError", NoException)
    ELSE IF ~verify_message(issuing_address, uid, cert.signature)
    THEN Raised("UnverifiedSignatureError", NoException)
    ELSE ReturnedNone

NoVerify ==
    [uid |-> None, cert |-> [file |-> "no_file", signature |-> NoSignature],
     address |-> None, res |-> NoOutcome]

VerifyQuiet == verify = NoVerify

\* The arguments of one verify_signature call.
VerifyInit ==
    \E u \in Uids, c \in CertFiles, a \in Addresses :
        verify = [uid |-> u, cert |-> c, address |-> a, res |-> NoOutcome]

VerifySignature ==
    /\ verify.res = NoOutcome
    /\ verify.uid # None
    /\ verify' = [verify EXCEPT
                    !.res = verify_signature(verify.uid, verify.cert, verify.address)]
    /\ UNCHANGED <<cpc, cleared, connVars, secretVars>>

\* ------------------------------------------------------ concurrent sessions

Callers == {"c1", "c2"}

ConcurrentQuiet ==
    /\ cpc = [c \in Callers |-> "out"]
    /\ cleared = [c \in Callers |-> FALSE]

AuxQuiet == VerifyQuiet /\ ConcurrentQuiet

\* Two FinalizableSigner scopes over one secret manager, their steps
\* interleaved. cpc[c] is where caller c is: outside ("out", "left",
\* "enter_failed"), in start() ("off_internet", "off_exists", "off_sleep",
\* "import_key"), in the body of its with statement ("body"), or in stop()
\* ("on_internet", "on_exists", "on_sleep").

\* What a session leaves alone: the single owner's position and records.
sessionQuiet == <<safe_mode, signer, spc, scope, started, read_env, stops, poll,
                  verify, connVars>>

At(c, where) == [cpc EXCEPT ![c] = where]

\* stop() ran in caller c's __exit__: every other caller's secret is gone.
ClearedBy(c) == [d \in Callers |-> IF d = c THEN cleared[d] ELSE TRUE]

\* Where caller c is once it called stop() and wif was cleared.
SessionStopped == IF StopEntry(safe_mode) = "idle" THEN "left" ELSE StopEntry(safe_mode)

\* __enter__ calls start().
SessionEnter ==
    \E c \in Callers :
        /\ cpc[c] \in {"out", "left", "enter_failed"}
        /\ cpc' = At(c, StartEntry(safe_mode))
        /\ UNCHANGED <<wif, net, usb, sign_outcome, cleared, sessionQuiet>>

\* check_internet_off: internet_on().
SessionOffInternet ==
    \E c \in Callers :
        /\ cpc[c] = "off_internet"
        /\ cpc' = At(c, IF internet_on = FALSE THEN "off_exists" ELSE "off_sleep")
        /\ UNCHANGED <<wif, net, usb, sign_outcome, cleared, sessionQuiet>>

\* check_internet_off: os.path.exists.
SessionOffExists ==
    \E c \in Callers :
        /\ cpc[c] = "off_exists"
        /\ cpc' = At(c, AfterOffExists(path_exists))
        /\ UNCHANGED <<wif, net, usb, sign_outcome, cleared, sessionQuiet>>

\* check_internet_off: time.sleep(10).
SessionOffSleep ==
    \E c \in Callers :
        /\ cpc[c] = "off_sleep"
        /\ cpc' = At(c, "off_internet")
        /\ UNCHANGED <<wif, net, usb, sign_outcome, cleared, sessionQuiet>>

\* self.wif = import_key(...): start() returns and the body begins, or
\* open() raises out of __enter__.
SessionImportKey ==
    \E c \in Callers :
        /\ cpc[c] = "import_key"
        /\ IF path_exists
           THEN /\ wif' = KeyOnSource
                /\ cpc' = At(c, "body")
                /\ cleared' = [cleared EXCEPT ![c] = FALSE]
           ELSE /\ cpc' = At(c, "enter_failed")
                /\ UNCHANGED <<wif, cleared>>
        /\ UNCHANGED <<net, usb, sign_outcome, sessionQuiet>>

\* The body signs with the secret manager; a signer's exception leaves the
\* body and __exit__ calls stop().
SessionSign ==
    \E c \in Callers, call \in {"sign_message", "sign_transaction"},
       tx \in TxsFor(signer), lib_ok \in BOOLEAN :
        LET res == SignResult(signer, call, wif, tx, lib_ok)
        IN /\ cpc[c] = "body"
           /\ sign_outcome' = [call |-> call, wif |-> wif,
                               tx |-> IF call = "sign_message" THEN NoTx ELSE tx,
                               lib_ok |-> lib_ok, res |-> res]
           /\ IF res.kind = "raise" /\ ExitCallsStop(TRUE)
              THEN /\ wif' = WifAfterStop(wif)
                   /\ cleared' = ClearedBy(c)
                   /\ cpc' = At(c, SessionStopped)
              ELSE /\ cpc' = At(c, IF res.kind = "raise" THEN "left" ELSE "body")
                   /\ UNCHANGED <<wif, cleared>>
           /\ UNCHANGED <<net, usb, sessionQuiet>>

\* The body ends: __exit__ calls stop(), which clears wif first.
SessionLeave ==
    \E c \in Callers, raised \in BOOLEAN :
        /\ cpc[c] = "body"
        /\ IF ExitCallsStop(raised)
           THEN /\ wif' = WifAfterStop(wif)
                /\ cleared' = ClearedBy(c)
                /\ cpc' = At(c, SessionStopped)
           ELSE /\ cpc' = At(c, "left")
                /\ UNCHANGED <<wif, cleared>>
        /\ UNCHANGED <<net, usb, sign_outcome, sessionQuiet>>

\* check_internet_on: internet_on().
SessionOnInternet ==
    \E c \in Callers :
        /\ cpc[c] = "on_internet"
        /\ cpc' = At(c, AfterOnInternet(internet_on))
        /\ UNCHANGED <<wif, net, usb, sign_outcome, cleared, sessionQuiet>>

\* check_internet_on: not os.path.exists; stop() and __exit__ return.
SessionOnExists ==
    \E c \in Callers :
        /\ cpc[c] = "on_exists"
        /\ cpc' = At(c, IF ~path_exists THEN "left" ELSE "on_sleep")
        /\ UNCHANGED <<wif, net, usb, sign_outcome, cleared, sessionQuiet>>

\* check_internet_on: time.sleep(10).
SessionOnSleep ==
    \E c \in Callers :
        /\ cpc[c] = "on_sleep"
        /\ cpc' = At(c, "on_internet")
        /\ UNCHANGED <<wif, net, usb, sign_outcome, cleared, sessionQuiet>>

\* ----------------------------------------------------------- specification

Init ==
    /\ ConnInit
    /\ SecretConstructed
    /\ safe_mode = TRUE
    /\ signer = "bitcoin"
    /\ net = TRUE
    /\ usb = FALSE
    /\ AuxQuiet

Next ==
    \/ CallBroadcast
    \/ StartAttempt
    \/ BroadcastProvider
    \/ EndAttempt
    \/ BroadcastSleep
    \/ CallEth
    \/ EthProvider
    \/ EthExhausted
    \/ CallBtcRead
    \/ SpendablesProvider
    \/ SpendablesExhausted

Spec == Init /\ [][Next]_vars

\* A broadcast in progress goes on: every provider call returns or raises,
\* time.sleep returns, and the statements between them are straight-line
\* code.
BroadcastFairness ==
    /\ WF_vars(StartAttempt)
    /\ WF_vars(BroadcastProvider)
    /\ WF_vars(EndAttempt)
    /\ WF_vars(BroadcastSleep)

SpecLive == Init /\ [][Next]_vars /\ BroadcastFairness

InitSecret == ConnQuiet /\ SecretInit /\ AuxQuiet

NextSecret ==
    \/ EnvChange
    \/ StartCall
    \/ OffInternet
    \/ OffExists
    \/ OffSleep
    \/ ImportKey
    \/ StopCall
    \/ OnInternet
    \/ OnExists
    \/ OnSleep
    \/ SignCall
    \/ EnterScope
    \/ LeaveBody

SpecSecret == InitSecret /\ [][NextSecret]_vars

InitVerify ==
    /\ ConnQuiet
    /\ SecretConstructed
    /\ safe_mode = TRUE
    /\ signer = "bitcoin"
    /\ net = TRUE
    /\ usb = FALSE
    /\ ConcurrentQuiet
    /\ VerifyInit

NextVerify == VerifySignature

SpecVerify == InitVerify /\ [][NextVerify]_vars

InitConcurrent ==
    /\ ConnQuiet
    /\ SecretConstructed
    /\ safe_mode \in BOOLEAN
    /\ signer = "bitcoin"
    /\ net \in BOOLEAN
    /\ usb \in BOOLEAN
    /\ AuxQuiet

NextConcurrent ==
    \/ EnvChange
    \/ SessionEnter
    \/ SessionOffInternet
    \/ SessionOffExists
    \/ SessionOffSleep
    \/ SessionImportKey
    \/ SessionSign
    \/ SessionLeave
    \/ SessionOnInternet
    \/ SessionOnExists
    \/ SessionOnSleep

SpecConcurrent == InitConcurrent /\ [][NextConcurrent]_vars

\* ================================================================== claims

BroadcastDone == op = "btc_broadcast_tx" /\ pc = "done"

\* The non-null transaction ids the provider calls of the attempt returned.
ReturnedIds(cs) ==
    {cs[i].res.txid : i \in {j \in DOMAIN cs : cs[j].res.kind = "return"
                                                /\ cs[j].res.txid # None}}

AttemptsMade == Cardinality({i \in DOMAIN events : events[i].ev = "attempt"})

SleepsTaken == Cardinality({i \in DOMAIN events : events[i].ev = "sleep"})

\* C1: when two providers return distinct non-null transaction ids within one
\* attempt, broadcast_tx_with_chain ends by raising a fatal broadcast error:
\* it returns no transaction id.
C1_ConflictIsFatal ==
    (BroadcastDone /\ Cardinality(ReturnedIds(calls)) >= 2)
        => outcome.kind = "raise" /\ outcome.error = "BroadcastError"

\* C2: when every broadcast-capable provider raises on every attempt, the
\* call makes exactly MAX_BROADCAST_ATTEMPTS attempts, a sleep of
\* BROADCAST_RETRY_INTERVAL between each two, and then raises BroadcastError
\* wrapping the exception of the most recent provider call that failed.
C2_AllRaiseExhaustsAttempts ==
    (BroadcastDone /\ seen = {"raise"})
        => /\ outcome.kind = "raise"
           /\ outcome.error = "BroadcastError"
           /\ AttemptsMade = MAX_BROADCAST_ATTEMPTS
           /\ \A i \in DOMAIN events :
                 (events[i].ev = "attempt" /\ i > 1)
                     => /\ events[i - 1] = Sleep(BROADCAST_RETRY_INTERVAL)
                        /\ events[i - 2].ev = "attempt"
           /\ outcome.wraps = Exc(calls[Len(calls)].res.error,
                                  MAX_BROADCAST_ATTEMPTS - 1,
                                  calls[Len(calls)].provider)
           /\ calls[Len(calls)].provider = Len(methods)

C2_Witness ==
    /\ BroadcastDone
    /\ seen = {"raise"}
    /\ Len(methods) >= 2
    /\ outcome.kind = "raise"
    /\ SleepsTaken >= 2

\* Every call of the attempt raised or returned t, and one returned t.
OnlyIdOrRaise(cs, t) ==
    /\ \A i \in DOMAIN cs : cs[i].res.kind = "raise" \/ cs[i].res.txid = t
    /\ \E i \in DOMAIN cs : cs[i].res.kind = "return" /\ cs[i].res.txid = t

\* C3: when, in the first attempt over a non-empty provider list, at least one
\* provider returns id T, every returned id is T and the other providers
\* raise, the call returns T at the end of that attempt: no sleep, no
\* second attempt.
C3_FirstAttemptSuccess ==
    \A t \in TxIds :
        (/\ op = "btc_broadcast_tx"
         /\ attempt_number = 0
         /\ methods # <<>>
         /\ Len(calls) = Len(methods)
         /\ OnlyIdOrRaise(calls, t))
            => /\ pc \in {"provider", "done"}
               /\ final_tx_id = t
               /\ events = <<Attempt(0)>>
               /\ pc = "done" => outcome = ReturnedTxId(t)

C3_Witness ==
    /\ BroadcastDone
    /\ outcome = ReturnedTxId("T1")
    /\ Len(calls) = 2
    /\ calls[1].res.kind = "return" /\ calls[1].res.txid = "T1"
    /\ calls[2].res.kind = "raise"
    /\ events = <<Attempt(0)>>

\* C4: for both chain families, when all providers fail to broadcast, the
\* failure reaches the caller as a raised BroadcastError: broadcast_tx does
\* not return a value.
C4_AllFailedBroadcastRaises ==
    (op \in {"btc_broadcast_tx", "eth_broadcast_tx"} /\ pc = "done" /\ seen = {"raise"})
        => outcome.kind = "raise" /\ outcome.error = "BroadcastError"

\* C9: get_balance returns 0 and raises nothing when every provider fails
\* the query, for both connectors and any number of providers.
C9_BalanceZeroWhenAllFail ==
    (op \in {"eth_get_balance", "btc_get_balance"} /\ pc = "done" /\ seen \subseteq {"raise"})
        => outcome = ReturnedInt(0)

C9_Witness ==
    /\ op = "btc_get_balance"
    /\ pc = "done"
    /\ seen = {"raise"}
    /\ Len(calls) = 2
    /\ outcome = ReturnedInt(0)

\* get_providers_for_chain has been called by the operation.
Resolved == pc # "idle" /\ (op = "btc_broadcast_tx" => events # <<>>)

\* C10: get_providers_for_chain(chain, bitcoind=True) is a list of exactly
\* one provider, a BitcoindConnector, whatever the chain and its configured
\* remote list; with bitcoind=False it is the chain's configured list in its
\* configured order.
C10_ProvidersForChain ==
    Resolved =>
        IF bitcoind
        THEN Len(providers) = 1 /\ providers[1].kind = "BitcoindConnector"
        ELSE providers = connectors[chain]

C10_Witness ==
    /\ Resolved
    /\ bitcoind
    /\ Len(connectors[chain]) >= 2
    /\ Len(providers) = 1

\* C5: in a FinalizableSigner scope, start() has returned before the body
\* runs, and stop() is called exactly once on every exit path of the body
\* (normal completion or an exception), so that the secret is absent once
\* the body has been left.
C5_ScopeBracketsSecret ==
    /\ scope = "body" => (started /\ wif # None /\ stops = 0)
    /\ scope \in {"exit_normal", "exit_exception", "left_normal", "left_exception"}
          => (stops = 1 /\ wif = None /\ ~started)

C5_Witness ==
    /\ scope = "left_exception"
    /\ sign_outcome.res.kind = "raise"
    /\ sign_outcome.wif # None
    /\ read_env.read
    /\ stops = 1
    /\ wif = None

\* C6: with a single owner, whatever the sequence of start(), stop() and sign
\* calls, the secret is absent before the first start() has returned and from
\* a call of stop() until the next start() returns (so also while stop() is
\* polling); it is present only between a completed start() and the
\* following stop().
C6_SecretOnlyWhileStarted ==
    /\ ~started => wif = None
    /\ spc \in {"on_internet", "on_exists", "on_sleep"} => wif = None

C6_Witness ==
    /\ ~started
    /\ wif = None
    /\ scope = "out"
    /\ spc = "idle"
    /\ read_env.read
    /\ sign_outcome.call # None
    /\ sign_outcome.wif # None

\* C7: for every chain family, a sign_message or sign_transaction call made
\* while the secret is absent ends in an error reported to the caller: it
\* does not return a value.
C7_SignWithoutSecretRaises ==
    (sign_outcome.call # None /\ sign_outcome.wif = None)
        => sign_outcome.res.kind = "raise"

\* C8: with safe mode enabled, whenever start() reads the secret from its
\* source, network connectivity is absent and the source is present.
C8_ReadOnlyWhileOffline ==
    (safe_mode /\ read_env.read) => (~read_env.net /\ read_env.usb)

\* C11: BitcoinSigner.sign_transaction raises UnableToSignTxError, and returns
\* nothing, whenever an input has an empty unlocking script after the signing
\* routine ran; it returns the signed transaction only when every input has a
\* non-empty unlocking script.
C11_UnsignedInputRaises ==
    (signer = "bitcoin" /\ sign_outcome.call = "sign_transaction")
        => LET scripts == ScriptsAfterSign(sign_outcome.tx)
               ran == sign_outcome.wif # None /\ sign_outcome.lib_ok
           IN /\ (ran /\ \E i \in DOMAIN scripts : scripts[i] = "")
                    => sign_outcome.res = SignRaised("UnableToSignTxError")
              /\ sign_outcome.res.kind = "return"
                    => /\ \A i \in DOMAIN scripts : scripts[i] # ""
                       /\ sign_outcome.res.value = "signed_transaction"

C11_Witness ==
    /\ signer = "bitcoin"
    /\ sign_outcome.call = "sign_transaction"
    /\ sign_outcome.wif # None
    /\ sign_outcome.lib_ok
    /\ sign_outcome.tx.inputs = <<"signable", "unsignable">>
    /\ sign_outcome.res = SignRaised("UnableToSignTxError")

\* C12: whenever EthereumSigner.sign_transaction cannot produce a signed
\* transaction (the input is not a Transaction, or the signing step fails), it
\* raises an error: it does not return a value.
C12_EthereumSigningFailureRaises ==
    (/\ signer = "ethereum"
     /\ sign_outcome.call = "sign_transaction"
     /\ \/ sign_outcome.tx.shape # "Transaction"
        \/ sign_outcome.wif = None
        \/ ~sign_outcome.lib_ok)
        => sign_outcome.res.kind = "raise"

\* C13: get_unspent_outputs returns the unspent outputs of a successful
\* non-empty lookup ordered by ascending coin value, for every list of integer
\* coin values the provider can return.
C13_UnspentOutputsAscending ==
    (op = "btc_get_unspent_outputs" /\ pc = "done" /\ outcome.vtype = "list")
        => \A i, j \in DOMAIN outcome.list :
              i < j => outcome.list[i] <= outcome.list[j]

\* C14: verify_signature raises UnverifiedSignatureError whenever the
\* signature stored in the signed certificate does not verify over the given
\* identifier against the issuing address (it is altered, was made by
\* another key, or was made over another identifier); it completes normally
\* only when the signature verifies, and a completed call returns nothing.
C14_FailedVerificationRaises ==
    (verify.res # NoOutcome /\ verify.cert.file = "signed")
        => LET sig == verify.cert.signature
               verifies == /\ sig.intact
                           /\ KeyOf(verify.address) = sig.key
                           /\ sig.msg = verify.uid
           IN /\ ~verifies
                    => verify.res = Raised("UnverifiedSignatureError", NoException)
              /\ verify.res.kind = "return" => verifies /\ verify.res = ReturnedNone

\* A certificate signed over "abc123" is verified against identifier
\* "abd123", and the call has raised.
C14_Witness ==
    /\ verify.cert.file = "signed"
    /\ verify.cert.signature = [key |-> "K1", msg |-> "abc123", intact |-> TRUE]
    /\ verify.address = "A1"
    /\ verify.uid = "abd123"
    /\ verify.res = Raised("UnverifiedSignatureError", NoException)

\* C15: within each attempt of the bitcoin-like broadcast the providers
\* invoked are the broadcast-capable entries of the registry list, each once
\* and in list order, whatever the earlier providers of the attempt did: while
\* the attempt runs the entries before the current one have been invoked, and
\* once it is over every entry has been.
C15_EveryProviderEachAttempt ==
    (op = "btc_broadcast_tx" /\ events # <<>>)
        => LET capable == SelectSeq(ProvidersFor(connectors, chain, bitcoind),
                                    LAMBDA p : "broadcast_tx" \in Capabilities(p.kind))
           IN /\ methods = capable
              /\ \A i \in DOMAIN calls : calls[i].provider = i
              /\ Len(calls) <= Len(capable)
              /\ pc = "provider" => Len(calls) = idx - 1
              /\ pc \in {"sleep", "attempt", "done"} => Len(calls) = Len(capable)

\* The first of two providers returned an id, the second was still invoked
\* (and raised), and the broadcast returned.
C15_Witness ==
    /\ op = "btc_broadcast_tx"
    /\ pc = "done"
    /\ outcome.kind = "return"
    /\ Len(calls) = 2
    /\ calls[1].res.kind = "return"
    /\ calls[1].res.txid # None
    /\ calls[2].res.kind = "raise"

\* The queries that return the first provider's answer.
ReadQueries == {"eth_get_balance", "eth_get_address_nonce", "btc_spendables_for_address"}

\* C16: a read query (ethereum get_balance, get_address_nonce, bitcoin
\* spendables_for_address) goes through the providers of the registry list
\* in order: the calls made are at increasing positions of the list, every
\* call but the last one raised, every position passed was invoked (but a
\* local node, which get_balance passes over), and once a call has returned
\* the query is over with that call's result, no later provider invoked.
C16_FirstAnswerWins ==
    (op \in ReadQueries /\ pc \in {"provider", "done"})
        => LET list == ProvidersFor(connectors, chain, bitcoind)
               tried == IF op = "btc_spendables_for_address"
                        THEN SelectSeq(list, LAMBDA p :
                                 "spendables_for_address" \in Capabilities(p.kind))
                        ELSE list
               n == Len(calls)
               answered == n > 0 /\ calls[n].res.kind = "return"
               passed == IF answered THEN calls[n].provider
                         ELSE IF pc = "provider" THEN idx - 1
                         ELSE Len(tried)
           IN /\ methods = tried
              /\ \A i, j \in DOMAIN calls : i < j => calls[i].provider < calls[j].provider
              /\ \A i \in DOMAIN calls : i < n => calls[i].res.kind = "raise"
              /\ {calls[i].provider : i \in DOMAIN calls}
                    = {k \in 1..passed : ~EthSkips(op, tried[k])}
              /\ answered => pc = "done" /\ outcome = calls[n].res
              /\ pc = "provider" => ~answered

\* The first of two providers answered the query: the second was not invoked.
C16_Witness ==
    /\ op \in ReadQueries
    /\ pc = "done"
    /\ Len(methods) = 2
    /\ Len(calls) = 1
    /\ calls[1].provider = 1
    /\ calls[1].res.kind = "return"
    /\ outcome = calls[1].res

\* C17: when a provider of the ethereum-like broadcast_tx did not fail, the
\* single pass ends there and the value returned is a non-null transaction
\* id, the one that provider reported.
C17_EthBroadcastReturnsId ==
    (op = "eth_broadcast_tx" /\ pc = "done" /\ calls # <<>>
     /\ calls[Len(calls)].res.kind = "return")
        => /\ outcome = calls[Len(calls)].res
           /\ outcome.txid \in TxIds
           /\ events = <<>>
           /\ \A i \in DOMAIN calls : i < Len(calls) => calls[i].res.kind = "raise"

\* The latest iteration of start()'s polling loop saw the network off and
\* the secret's source present.
PolledOffline == poll = [by |-> "start", net |-> "off", usb |-> "present"]

\* The latest iteration of stop()'s polling loop saw the network on and the
\* secret's source absent.
PolledOnline == poll = [by |-> "stop", net |-> "on", usb |-> "absent"]

\* C18: with safe mode, start() is about to load the secret, or is over,
\* only when the latest iteration of its polling loop saw the network off and
\* the source present, and it sleeps before the next iteration only when the
\* latest one did not; without safe mode start() never polls and observes
\* nothing.
C18_StartWaitsForOfflineSource ==
    /\ (safe_mode /\ spc = "import_key") => PolledOffline
    /\ (safe_mode /\ spc = "idle" /\ poll.by = "start") => PolledOffline
    /\ spc = "off_sleep" => poll.by = "start" /\ ~PolledOffline
    /\ ~safe_mode => /\ spc \notin {"off_internet", "off_exists", "off_sleep"}
                     /\ poll.by = "start" => poll = PollBegin("start")

\* start() returned with the key after an iteration that saw the network
\* off and the source present, in safe mode.
C18_Witness ==
    /\ safe_mode
    /\ spc = "idle"
    /\ PolledOffline
    /\ started
    /\ wif = KeyOnSource

\* C19: the secret is absent while stop() polls and once stop() is over;
\* with safe mode stop() is over only when the latest iteration of its
\* polling loop saw the network on and the source absent, and it sleeps
\* before the next iteration only when the latest one did not.
C19_StopClearsThenWaits ==
    /\ spc \in {"on_internet", "on_exists", "on_sleep"} => wif = None /\ poll.by = "stop"
    /\ (spc = "idle" /\ poll.by = "stop") => wif = None
    /\ (safe_mode /\ spc = "idle" /\ poll.by = "stop") => PolledOnline
    /\ spc = "on_sleep" => ~PolledOnline

\* stop() is over in safe mode, after a start() that had loaded the key.
C19_Witness ==
    /\ safe_mode
    /\ spc = "idle"
    /\ PolledOnline
    /\ read_env.read
    /\ wif = None

\* C20: with two callers running scoped sessions on one secret manager, a
\* caller inside its scope (its start() returned, its stop() not yet called)
\* can find the secret absent, and whenever it does another caller's stop()
\* has run since its own start() returned.
C20_AbsentInScopeOnlyByOtherStop ==
    \A c \in Callers : (cpc[c] = "body" /\ wif = None) => cleared[c]

\* Caller c1 is inside its scope, the secret is absent, and the other
\* caller's stop() cleared it.
C20_Witness ==
    /\ cpc["c1"] = "body"
    /\ wif = None
    /\ cleared["c1"]
    /\ cpc["c2"] \in {"on_internet", "on_exists", "on_sleep", "left"}

\* C21: in the bitcoin-like broadcast the attempts and sleeps alternate,
\* attempt k first, then a sleep of BROADCAST_RETRY_INTERVAL, then attempt
\* k + 1; an attempt that ended without a transaction id is followed by a
\* sleep, the last attempt included: a call that raises BroadcastError made
\* MAX_BROADCAST_ATTEMPTS attempts and as many sleeps, the last one after the
\* last attempt, and a call that returns from its k-th attempt slept k - 1
\* times.
C21_SleepAfterEveryFailedAttempt ==
    op = "btc_broadcast_tx"
        => /\ \A i \in DOMAIN events :
                 events[i] = IF i % 2 = 1 THEN Attempt((i - 1) \div 2)
                             ELSE Sleep(BROADCAST_RETRY_INTERVAL)
           /\ pc = "sleep" => final_tx_id = None /\ events[Len(events)].ev = "attempt"
           /\ (pc \in {"attempt", "done"} /\ events # <<>> /\ final_tx_id = None)
                 => events[Len(events)] = Sleep(BROADCAST_RETRY_INTERVAL)
           /\ (pc = "done" /\ outcome.kind = "raise")
                 => /\ AttemptsMade = MAX_BROADCAST_ATTEMPTS
                    /\ SleepsTaken = MAX_BROADCAST_ATTEMPTS
                    /\ events[Len(events)] = Sleep(BROADCAST_RETRY_INTERVAL)
           /\ (pc = "done" /\ outcome.kind = "return")
                 => /\ final_tx_id # None
                    /\ AttemptsMade = attempt_number + 1
                    /\ SleepsTaken = AttemptsMade - 1

\* The broadcast failed on every attempt: BroadcastError is raised after
\* the third sleep, which follows the third attempt.
C21_Witness ==
    /\ BroadcastDone
    /\ outcome.error = "BroadcastError"
    /\ Len(methods) >= 1
    /\ events = <<Attempt(0), Sleep(RetrySleep), Attempt(1), Sleep(RetrySleep),
                  Attempt(2), Sleep(RetrySleep)>>

\* What a bitcoin-like broadcast may have done so far: no more provider
\* calls than MAX_BROADCAST_ATTEMPTS for each broadcast-capable provider of
\* the list; once over, it returned a non-null id that a provider returned
\* in the last attempt made, or it raised BroadcastError, which wraps no
\* exception when no provider call raised.
BroadcastWithinBounds ==
    op = "btc_broadcast_tx"
        => LET capable == SelectSeq(ProvidersFor(connectors, chain, bitcoind),
                                    LAMBDA p : "broadcast_tx" \in Capabilities(p.kind))
           IN /\ ncalls <= MAX_BROADCAST_ATTEMPTS * Len(capable)
              /\ pc = "done"
                    => \/ /\ outcome.kind = "return"
                          /\ outcome.vtype = "txid"
                          /\ outcome.txid \in ReturnedIds(calls)
                       \/ /\ outcome.kind = "raise"
                          /\ outcome.error = "BroadcastError"
                          /\ "raise" \notin seen => outcome.wraps = NoException

\* C22: broadcast_tx_with_chain always terminates, after at most
\* MAX_BROADCAST_ATTEMPTS provider calls for each broadcast-capable provider,
\* and it ends in one of two ways only: it returns a non-null transaction id
\* that a provider returned in the last attempt made, or it raises
\* BroadcastError (never a provider's own exception), which wraps no
\* exception when no provider call raised.
C22_BroadcastTerminates ==
    /\ []BroadcastWithinBounds
    /\ (op = "btc_broadcast_tx") ~> BroadcastDone

\* Two providers returned null on each of the three attempts: six calls,
\* then BroadcastError wrapping no exception.
C22_Witness ==
    /\ BroadcastDone
    /\ Len(methods) = 2
    /\ seen = {"null"}
    /\ ncalls = MAX_BROADCAST_ATTEMPTS * 2
    /\ outcome = Raised("BroadcastError", NoException)

\* C23: an ethereum connector set up with local_node = True gets the single
\* local-node connector as its provider list; get_balance passes over it
\* without a call, get_address_nonce and broadcast_tx call a method it does
\* not have or with an argument it does not take, which raises before
\* anything is sent; the operation ends by returning 0, 0 and '0xfail'
\* respectively, never by raising.
C23_LocalNodeEthereumSentinels ==
    (op \in EthOps /\ bitcoind /\ pc \in {"provider", "done"})
        => /\ Len(providers) = 1
           /\ providers[1].kind = "BitcoindConnector"
           /\ methods = providers
           /\ op = "eth_get_balance" => calls = <<>>
           /\ \A i \in DOMAIN calls :
                 /\ calls[i].provider = 1
                 /\ calls[i].res = Raised(IF op = "eth_get_address_nonce"
                                          THEN "AttributeError" ELSE "TypeError",
                                          NoException)
           /\ ncalls <= 1
           /\ pc = "done"
                 => outcome = IF op = "eth_broadcast_tx"
                              THEN ReturnedTxId("0xfail") ELSE ReturnedInt(0)

\* broadcast_tx on ethereum_mainnet with the local node: the one call raised
\* TypeError and '0xfail' was returned, the chain's remote list unused.
C23_Witness ==
    /\ op = "eth_broadcast_tx"
    /\ bitcoind
    /\ chain = "ethereum_mainnet"
    /\ connectors[chain] # <<>>
    /\ pc = "done"
    /\ Len(calls) = 1
    /\ calls[1].res.error = "TypeError"
    /\ outcome = ReturnedTxId("0xfail")

====
